---- MODULE Spec2Model ----
(***************************************************************************)
(* Model of btgym/server.py: the BTgymServer process (control mode loop,   *)
(* data acquisition from the data server) and _BTgymAnalyzer.next (the     *)
(* per-tick episode mode exchange with the controller over a ZMQ REP       *)
(* socket).                                                                *)
(***************************************************************************)
EXTENDS Integers, Sequences, FiniteSets, TLC

\* ---------------------------------------------------------------- bounds
\* Episodes explored per session (itertools.count(0) itself is unbounded).
MaxEpisodes == 2
\* Tick at which the engine's data is exhausted and _get_done() is forced.
MaxIteration == 4
\* strategy.p.skip_frame, the communication stride.
SkipFrame == 2
\* Render requests answered while blocked on one communicated tick.
MaxRenders == 2
\* Largest finite number of 'Dataset not ready' replies of the data server.
MaxNotReady == 2
\* Latest exchange of an acquisition on which the data channel may fail.
MaxFailAt == 3
\* Passes of an acquisition on which a zero-length pause is explored (the
\* first ones).
MaxZeroPause == 1
\* Ticks per time unit: wait, slept and the pauses are counted in ticks of
\* 1/Resolution time unit (the code's floats, to that precision).
Resolution == 2

\* ------------------------------------------------------ program constants
\* self.wait_for_data_reset = 300
WaitForDataReset == 300
\* pause = random.random() * 2: the factor, pause lies in [0, PauseRange).
PauseRange == 2

\* ------------------------------------------------------------- vocabulary
Absent == "absent"
NoError == "none"
\* trial_sample = None
None == 0
SampleIds == {1, 2}

\* Outcome of one socket call: success, zmq.EAGAIN, any other ZMQError.
SocketResults == {"ok", "EAGAIN", "EOTHER"}

\* A controller message: a dict with optional keys ctrl, action, mode, kwargs.
\* kwargs is "new" for {'trial_config': {'get_new': True}}, "reuse" for
\* {'trial_config': {'get_new': False}}.
Msg(c, a, m, k) == [ctrl |-> c, action |-> a, mode |-> m, kwargs |-> k]

NoMessage == Msg(Absent, Absent, Absent, Absent)

ControllerMessages ==
    { Msg("_reset", Absent, Absent, "new"),
      Msg("_reset", Absent, Absent, "reuse"),
      Msg("_reset", Absent, Absent, Absent),
      Msg("_stop", Absent, Absent, Absent),
      Msg("_getstat", Absent, Absent, Absent),
      Msg("_render", Absent, "human", Absent),
      Msg("_render", Absent, Absent, Absent),
      Msg("_done", Absent, Absent, Absent),
      Msg("_bogus", Absent, Absent, Absent),
      Msg("_render", "buy", "human", Absent),
      Msg(Absent, "buy", Absent, Absent),
      Msg(Absent, "sell", Absent, Absent),
      Msg(Absent, Absent, Absent, Absent) }

\* A reply sent on the controller socket.
\*   kind "exiting"      'Exiting.'
\*   kind "reset_ack"    'Preparing new episode with kwargs: ...'
\*   kind "stat"         the episode_result dict
\*   kind "render"       a rendering of mode
\*   kind "usage"        {'ctrl': 'send control keys: ...'}
\*   kind "no_ctrl_hint" 'No <ctrl> key received: ...'
\*   kind "done_ack"     '_DONE SIGNAL RECEIVED'
\*   kind "tuple"        (state, reward, is_done, info)
Reply(kind) ==
    [kind |-> kind, stat |-> {}, mode |-> Absent, kwargs |-> Absent,
     state |-> 0, reward |-> 0, done |-> FALSE, info |-> <<>>]

VARIABLES
    pc,              \* where the server process is
    step,            \* the handler that ran last
    error,           \* the exception that ended the process, if any
    socket,          \* REP socket to the controller: "recv", "send", "closed"
    data_socket,     \* REQ socket to the data server: "open", "closed"
    service_input,   \* last message received in control mode
    out,             \* replies sent on socket since the last receive
    episode_number,
    episode_result,  \* dict, as a set of <<key, value>>
    trial_sample,
    episode_sample,
    data_server_response,
    data_request,    \* last request delivered on data_socket
    last_io,         \* results of the socket calls of the last data exchange
    n_ping, n_stop, n_get_data,   \* requests delivered on data_socket
    wait,            \* get_data's accumulated wait
    slept,           \* total time spent in time.sleep() by get_data, in ticks
    dp,              \* the data server's script for the running acquisition
    iteration,       \* strategy.iteration
    is_done,
    info_list,
    action, last_action,
    state, reward,   \* snapshot taken when the gate opens
    step_to_render,
    message,         \* analyzer's self.message
    renders,         \* render requests answered on the current tick
    early_stops      \* early_stop() calls of the current episode

ctrlVars == <<socket, service_input, out>>
sessVars == <<pc, error, episode_number, episode_result, trial_sample, episode_sample>>
dataVars == <<data_socket, data_server_response, data_request, n_ping, n_stop,
              n_get_data, wait, slept, dp, last_io>>
epVars == <<iteration, is_done, info_list, action, last_action, state, reward,
            step_to_render, message, renders, early_stops>>
vars == <<step, ctrlVars, sessVars, dataVars, epVars>>

\* ------------------------------------------------------- the data channel
\* The data server's script for one acquisition: it answers 'Dataset not
\* ready' to the first not_ready requests (to all of them when always), and
\* the channel fails on exchange number fail_at when fails.
DataScripts ==
    { [always |-> a, not_ready |-> k, fails |-> f, fail_at |-> t] :
        a \in BOOLEAN, k \in 0..MaxNotReady, f \in BOOLEAN, t \in 1..MaxFailAt }

IdleScript ==
    [always |-> FALSE, not_ready |-> 0, fails |-> FALSE, fail_at |-> 1]

\* Scripts in canonical form (unused fields at their default).
Scripts ==
    { s \in DataScripts :
        /\ s.always => s.not_ready = 0
        /\ ~s.fails => s.fail_at = 1 }

\* A message received from the data server.
\*   kind "pong"      the reply to ping
\*   kind "not_ready" {'ctrl': '... Dataset not ready ...'}
\*   kind "sample"    {'sample': <trial>, 'stat': <stat>}
\*   kind "no_sample" a reply with neither the marker nor a sample
DataMsg(kind, sample) == [kind |-> kind, sample |-> sample]

NoDataMsg == DataMsg("none", None)

\* CommWithTimeout going on to the receive after a failed send.
CommWithTimeout_NoReturn(send_result, recv_result, reply) ==
    IF send_result # "ok"
    THEN [status |-> IF send_result = "EAGAIN"
                     THEN "send_failed_due_to_connect_timeout"
                     ELSE "send_failed_for_unknown_reason",
          message |-> IF recv_result = "ok" THEN reply ELSE NoDataMsg,
          sent |-> FALSE, recv_called |-> TRUE]
    ELSE IF recv_result # "ok"
    THEN [status |-> IF recv_result = "EAGAIN"
                     THEN "receive_failed_due_to_connect_timeout"
                     ELSE "receive_failed_for_unknown_reason",
          message |-> NoDataMsg, sent |-> TRUE, recv_called |-> TRUE]
    ELSE [status |-> "ok", message |-> reply, sent |-> TRUE, recv_called |-> TRUE]
\* _comm_with_timeout: send, then receive unless the send failed.  sent and
\* recv_called record the socket calls made.
CommWithTimeout(send_result, recv_result, reply) ==
    IF send_result # "ok"
    THEN [status |-> IF send_result = "EAGAIN"
                     THEN "send_failed_due_to_connect_timeout"
                     ELSE "send_failed_for_unknown_reason",
          message |-> NoDataMsg, sent |-> FALSE, recv_called |-> FALSE]
    ELSE IF recv_result # "ok"
    THEN [status |-> IF recv_result = "EAGAIN"
                     THEN "receive_failed_due_to_connect_timeout"
                     ELSE "receive_failed_for_unknown_reason",
          message |-> NoDataMsg, sent |-> TRUE, recv_called |-> TRUE]
    ELSE [status |-> "ok", message |-> reply, sent |-> TRUE, recv_called |-> TRUE]

NoResponse ==
    [status |-> "none", message |-> NoDataMsg, sent |-> FALSE, recv_called |-> FALSE]
\* StatusOk taking every status for ok.
StatusOk_Always(status) == TRUE
\* StatusOk looking at send failures only.
StatusOk_SendOnly(status) ==
    status \notin {"send_failed_due_to_connect_timeout",
                   "send_failed_for_unknown_reason"}

\* data_server_response['status'] in 'ok': a substring test.
StatusOk(status) == status \in {"ok", "o", "k", ""}

\* The socket calls one exchange makes and how each went: the receive is
\* not reached when the send raises.
IoOf(sr) == <<sr[1], IF sr[1] = "ok" THEN sr[2] ELSE "none">>

\* The ways one exchange can go on a failing channel.
FailingResults ==
    { sr \in SocketResults \X SocketResults :
        sr[1] # "ok" \/ (sr[1] = "ok" /\ sr[2] # "ok") }

\* pause = random.random() * 2, in ticks: every multiple of a tick in
\* [0, PauseRange).
Pauses == 0..(PauseRange * Resolution - 1)

\* assert 'Dataset not ready' in message['ctrl']
NotReady(m) == m.kind = "not_ready"
\* WithinBudget with a strict comparison.
WithinBudget_Strict(w) == w < WaitForDataReset * Resolution

\* wait <= self.wait_for_data_reset, wait in ticks
WithinBudget(w) == w <= WaitForDataReset * Resolution
\* AddPause overwriting the accumulated wait.
AddPause_Overwrite(w, pause) == pause

\* wait += pause
AddPause(w, pause) == w + pause

\* A request on the data channel.
DataRequest(ctrl, kwargs) == [ctrl |-> ctrl, kwargs |-> kwargs]

NoRequest == DataRequest(Absent, Absent)

\* What the scripted data server and channel do on exchange number n.
ScriptAllows(script, n, sr, reply) ==
    IF script.fails /\ script.fail_at = n
    THEN sr \in FailingResults /\ reply = NoDataMsg
    ELSE /\ sr = <<"ok", "ok">>
         /\ IF script.always \/ n <= script.not_ready
            THEN reply = DataMsg("not_ready", None)
            ELSE reply.kind \in {"sample", "no_sample"}

DataReplies ==
    {NoDataMsg, DataMsg("not_ready", None), DataMsg("no_sample", None)}
        \cup {DataMsg("sample", i) : i \in SampleIds}

\* ------------------------------------------------------ episode start/end
\* strategy.iteration of a fresh strategy instance.
IterationStart == {0, 1}

NoStep == [state |-> 0, reward |-> 0, done |-> FALSE, info |-> <<>>, set |-> FALSE]

\* A fresh engine copy and analyzer: _BTgymAnalyzer.__init__.
FreshEpisodeVars ==
    /\ iteration' = 0
    /\ is_done' = FALSE
    /\ info_list' = <<>>
    /\ action' = "hold"
    /\ last_action' = Absent
    /\ state' = 0
    /\ reward' = 0
    /\ step_to_render' = NoStep
    /\ message' = NoMessage
    /\ renders' = 0
    /\ early_stops' = 0

\* cerebro.run() starts ticking on an episode sampled from trial.
BeginEpisode(trial, it0) ==
    /\ pc' = "running"
    /\ episode_sample' = trial
    /\ iteration' = it0
    /\ is_done' = FALSE
    /\ info_list' = <<>>
    /\ action' = "hold"
    /\ last_action' = Absent
    /\ state' = 0
    /\ reward' = 0
    /\ step_to_render' = NoStep
    /\ message' = NoMessage
    /\ renders' = 0
    /\ early_stops' = 0
\* ResultOf storing the number of the episode to come.
ResultOf_NextNumber(result, n) ==
    {kv \in result : kv[1] # "episode"} \cup {<<"episode", n + 1>>}

\* episode_result['episode'] = episode_number, after cerebro.run() returns.
ResultOf(result, n) ==
    {kv \in result : kv[1] # "episode"} \cup {<<"episode", n>>}

\* ------------------------------------------------------------------- Init
Init ==
    /\ pc = "ping"
    /\ step = "start"
    /\ error = NoError
    /\ socket = "recv"
    /\ data_socket = "open"
    /\ service_input = NoMessage
    /\ out = <<>>
    /\ episode_number = 0
    /\ episode_result = {}
    /\ trial_sample = None
    /\ episode_sample = None
    /\ data_server_response = NoResponse
    /\ data_request = NoRequest
    /\ last_io = <<"none", "none">>
    /\ n_ping = 0
    /\ n_stop = 0
    /\ n_get_data = 0
    /\ wait = 0
    /\ slept = 0
    /\ dp = IdleScript
    /\ iteration = 0
    /\ is_done = FALSE
    /\ info_list = <<>>
    /\ action = "hold"
    /\ last_action = Absent
    /\ state = 0
    /\ reward = 0
    /\ step_to_render = NoStep
    /\ message = NoMessage
    /\ renders = 0
    /\ early_stops = 0

\* ------------------------------------------------------------------- ping
\* run(): the liveness check of the data server at session start.
Ping ==
    /\ step' = "Ping"
    /\ pc = "ping"
    /\ \E sr \in SocketResults \X SocketResults :
         LET resp == CommWithTimeout(sr[1], sr[2], DataMsg("pong", None)) IN
         /\ data_server_response' = resp
         /\ last_io' = IoOf(sr)
         /\ n_ping' = IF resp.sent THEN n_ping + 1 ELSE n_ping
         /\ data_request' = IF resp.sent THEN DataRequest("ping!", Absent) ELSE data_request
         /\ IF StatusOk(resp.status)
            THEN pc' = "control" /\ error' = error
            ELSE pc' = "crashed" /\ error' = "ConnectionError"
    /\ UNCHANGED <<ctrlVars, epVars, episode_number, episode_result, trial_sample,
                   episode_sample, data_socket, n_stop, n_get_data, wait, slept,
                   dp>>

\* ----------------------------------------------------------- control mode
\* ControlReply leaving _reset unanswered.
ControlReply_ResetSilent(msg, result) ==
    IF msg.ctrl = Absent THEN <<Reply("no_ctrl_hint")>>
    ELSE IF msg.ctrl = "_stop" THEN <<Reply("exiting")>>
    ELSE IF msg.ctrl = "_reset" THEN <<>>
    ELSE IF msg.ctrl = "_getstat" THEN <<[Reply("stat") EXCEPT !.stat = result]>>
    ELSE IF msg.ctrl = "_render" /\ msg.mode # Absent
         THEN <<[Reply("render") EXCEPT !.mode = msg.mode]>>
    ELSE <<Reply("usage")>>
\* ControlReply leaving a message without ctrl unanswered.
ControlReply_NoCtrlSilent(msg, result) ==
    IF msg.ctrl = Absent THEN <<>>
    ELSE IF msg.ctrl = "_stop" THEN <<Reply("exiting")>>
    ELSE IF msg.ctrl = "_reset"
         THEN IF msg.kwargs = Absent
              THEN <<>>
              ELSE <<[Reply("reset_ack") EXCEPT !.kwargs = msg.kwargs]>>
    ELSE IF msg.ctrl = "_getstat" THEN <<[Reply("stat") EXCEPT !.stat = result]>>
    ELSE IF msg.ctrl = "_render" /\ msg.mode # Absent
         THEN <<[Reply("render") EXCEPT !.mode = msg.mode]>>
    ELSE <<Reply("usage")>>
\* ControlReply with the final else branch sending nothing.
ControlReply_SilentUnknown(msg, result) ==
    IF msg.ctrl = Absent THEN <<Reply("no_ctrl_hint")>>
    ELSE IF msg.ctrl = "_stop" THEN <<Reply("exiting")>>
    ELSE IF msg.ctrl = "_reset"
         THEN IF msg.kwargs = Absent
              THEN <<>>
              ELSE <<[Reply("reset_ack") EXCEPT !.kwargs = msg.kwargs]>>
    ELSE IF msg.ctrl = "_getstat" THEN <<[Reply("stat") EXCEPT !.stat = result]>>
    ELSE IF msg.ctrl = "_render" /\ msg.mode # Absent
         THEN <<[Reply("render") EXCEPT !.mode = msg.mode]>>
    ELSE <<>>

\* The reply run() sends for a message received in control mode (none when
\* the handler raises before sending).
ControlReply(msg, result) ==
    IF msg.ctrl = Absent THEN <<Reply("no_ctrl_hint")>>
    ELSE IF msg.ctrl = "_stop" THEN <<Reply("exiting")>>
    ELSE IF msg.ctrl = "_reset"
         THEN IF msg.kwargs = Absent
              THEN <<>>
              ELSE <<[Reply("reset_ack") EXCEPT !.kwargs = msg.kwargs]>>
    ELSE IF msg.ctrl = "_getstat" THEN <<[Reply("stat") EXCEPT !.stat = result]>>
    ELSE IF msg.ctrl = "_render" /\ msg.mode # Absent
         THEN <<[Reply("render") EXCEPT !.mode = msg.mode]>>
    ELSE <<Reply("usage")>>

\* Where the control mode handler leaves the process.
ControlTarget(msg) ==
    IF msg.ctrl = "_stop" THEN "terminated"
    ELSE IF msg.ctrl = "_reset"
         THEN IF msg.kwargs = Absent THEN "crashed" ELSE "episode"
    ELSE "control"

\* NeedNewTrial asking for a trial on every reset.
NeedNewTrial_Always(msg, trial) == TRUE
\* NeedNewTrial looking at the get_new flag alone.
NeedNewTrial_GetNewOnly(msg, trial) == msg.kwargs = "new"
\* sample_config['trial_config']['get_new'] or trial_sample is None
NeedNewTrial(msg, trial) == msg.kwargs = "new" \/ trial = None

\* run(): one pass of the control mode loop, from recv_pyobj() to the next
\* blocking call.
ControlRecv ==
    /\ step' = "ControlRecv"
    /\ pc = "control"
    /\ \E msg \in ControllerMessages :
         /\ msg.ctrl = "_reset" => episode_number < MaxEpisodes
         /\ service_input' = msg
         /\ out' = ControlReply(msg, episode_result)
         /\ CASE ControlTarget(msg) = "terminated" ->
                   /\ pc' = "terminated"
                   /\ socket' = "closed"
                   /\ UNCHANGED <<error, episode_sample, n_get_data, wait, slept,
                                  dp, epVars>>
              [] ControlTarget(msg) = "crashed" ->
                   /\ pc' = "crashed"
                   /\ error' = "KeyError"
                   /\ socket' = "send"
                   /\ UNCHANGED <<episode_sample, n_get_data, wait, slept,
                                  dp, epVars>>
              [] ControlTarget(msg) = "control" ->
                   /\ pc' = "control"
                   /\ socket' = "recv"
                   /\ UNCHANGED <<error, episode_sample, n_get_data, wait, slept,
                                  dp, epVars>>
              [] ControlTarget(msg) = "episode" ->
                   /\ socket' = "recv"
                   /\ error' = error
                   /\ n_get_data' = 0
                   /\ wait' = 0
                   /\ slept' = 0
                   /\ IF NeedNewTrial(msg, trial_sample)
                      THEN /\ pc' = "get_data"
                           /\ \E script \in Scripts : dp' = script
                           /\ episode_sample' = episode_sample
                           /\ FreshEpisodeVars
                      ELSE /\ dp' = IdleScript
                           /\ \E it0 \in IterationStart :
                                 BeginEpisode(trial_sample, it0)
    /\ UNCHANGED <<episode_number, episode_result, trial_sample, data_socket,
                   data_server_response, data_request, n_ping, n_stop, last_io>>

\* ------------------------------------------------------- data acquisition
\* get_data(): one pass of its loop, from the _get_data exchange to the next
\* exchange, the return or the raise.
GetData ==
    /\ step' = "GetData"
    /\ pc = "get_data"
    /\ \E sr \in SocketResults \X SocketResults, reply \in DataReplies :
         LET resp == CommWithTimeout(sr[1], sr[2], reply)
             req == DataRequest("_get_data", service_input.kwargs)
         IN
         /\ ScriptAllows(dp, n_get_data + 1, sr, reply)
         /\ n_get_data' = IF resp.sent THEN n_get_data + 1 ELSE n_get_data
         /\ IF ~StatusOk(resp.status)
            THEN \* raise ConnectionError
                 /\ last_io' = IoOf(sr)
                 /\ pc' = "crashed"
                 /\ error' = "ConnectionError"
                 /\ data_server_response' = resp
                 /\ data_request' = IF resp.sent THEN req ELSE data_request
                 /\ UNCHANGED <<socket, n_stop, wait, slept, dp,
                                trial_sample, episode_sample, epVars>>
            ELSE IF NotReady(resp.message)
            THEN IF WithinBudget(wait)
                 THEN \* time.sleep(pause)
                      /\ \E pause \in Pauses :
                            /\ pause = 0 => n_get_data < MaxZeroPause
                            /\ wait' = AddPause(wait, pause)
                            /\ slept' = slept + pause
                      /\ data_server_response' = resp
                      /\ last_io' = IoOf(sr)
                      /\ data_request' = req
                      /\ UNCHANGED <<pc, error, socket, n_stop, dp, trial_sample,
                                     episode_sample, epVars>>
                 ELSE \* give up: _stop, close, raise RuntimeError
                      /\ \E sr2 \in SocketResults \X SocketResults :
                            LET stop == CommWithTimeout(sr2[1], sr2[2],
                                                        DataMsg("stopped", None))
                            IN
                            /\ data_server_response' = stop
                            /\ last_io' = IoOf(sr2)
                            /\ data_request' =
                                  IF stop.sent THEN DataRequest("_stop", Absent)
                                  ELSE req
                            /\ n_stop' = IF stop.sent THEN n_stop + 1 ELSE n_stop
                      /\ socket' = "closed"
                      /\ pc' = "crashed"
                      /\ error' = "RuntimeError"
                      /\ UNCHANGED <<wait, slept, dp, trial_sample,
                                     episode_sample, epVars>>
            ELSE \* the assertion fails: break
                 /\ data_server_response' = resp
                 /\ last_io' = IoOf(sr)
                 /\ data_request' = req
                 /\ UNCHANGED <<socket, n_stop, wait, slept>>
                 /\ dp' = IdleScript
                 /\ IF resp.message.kind = "sample"
                    THEN /\ trial_sample' = resp.message.sample
                         /\ error' = error
                         /\ \E it0 \in IterationStart :
                               BeginEpisode(resp.message.sample, it0)
                    ELSE \* message['sample'] raises KeyError
                         /\ pc' = "crashed"
                         /\ error' = "KeyError"
                         /\ UNCHANGED <<trial_sample, episode_sample, epVars>>
    /\ UNCHANGED <<service_input, out, episode_number, episode_result, data_socket,
                   n_ping>>

\* ----------------------------------------------------------- episode mode
\* strategy._get_done(): the engine's own flag d, forced once the data ends.
GetDone(d, it) == d \/ it >= MaxIteration

\* strategy.get_info(), get_state(), get_reward() at tick it.
GetInfo(it) == it
GetState(it) == it
GetReward(it) == it
\* GateOpen with the stride ignored: every tick communicates.
GateOpen_EveryTick(it, done) == it % 1 = 0 \/ done

\* TickAction leaving the pending action as the last tick set it.
TickAction_Keep(pending) == pending
\* self.strategy.action = 'hold', at the start of every tick.
TickAction(pending) == "hold"

\* iteration % skip_frame == 0 or is_done
GateOpen(it, done) == it % SkipFrame = 0 \/ done
\* TupleInfo sending the entire info_list.
TupleInfo_Whole(infos) == infos

\* info = [self.info_list[-1]]
TupleInfo(infos) == <<infos[Len(infos)]>>

\* (state, reward, is_done, info)
EpisodeTuple(st, rw, done, infos) ==
    [Reply("tuple") EXCEPT !.state = st, !.reward = rw, !.done = done,
                           !.info = TupleInfo(infos)]
\* EpisodeBranch looking for the action key before the ctrl key.
EpisodeBranch_ActionFirst(msg) ==
    IF msg.action # Absent THEN "action"
    ELSE IF msg.ctrl # Absent
    THEN IF msg.ctrl = "_render"
         THEN IF msg.mode = Absent THEN "render_error" ELSE "render"
         ELSE IF msg.ctrl = "_done" THEN "done" ELSE "ignored"
    ELSE "no_action"

\* The branch next() takes on a received message.
EpisodeBranch(msg) ==
    IF msg.ctrl # Absent
    THEN IF msg.ctrl = "_render"
         THEN IF msg.mode = Absent THEN "render_error" ELSE "render"
         ELSE IF msg.ctrl = "_done" THEN "done" ELSE "ignored"
    ELSE IF msg.action # Absent THEN "action" ELSE "no_action"
\* EpisodeReply answering _done with the 4-tuple.
EpisodeReply_DoneTuple(msg, st, rw, done, infos) ==
    CASE EpisodeBranch(msg) = "render" -> <<[Reply("render") EXCEPT !.mode = msg.mode]>>
      [] EpisodeBranch(msg) = "done" -> <<EpisodeTuple(st, rw, TRUE, infos)>>
      [] EpisodeBranch(msg) = "action" -> <<EpisodeTuple(st, rw, done, infos)>>
      [] OTHER -> <<>>

\* The reply next() sends for a received message.
EpisodeReply(msg, st, rw, done, infos) ==
    CASE EpisodeBranch(msg) = "render" -> <<[Reply("render") EXCEPT !.mode = msg.mode]>>
      [] EpisodeBranch(msg) = "done" -> <<Reply("done_ack")>>
      [] EpisodeBranch(msg) = "action" -> <<EpisodeTuple(st, rw, done, infos)>>
      [] OTHER -> <<>>

\* EarlyStopCalls going on from the _done branch to the is_done test at the
\* end of the tick, with the flag the engine set.
EarlyStopCalls_NoReturn(msg, done) ==
    IF EpisodeBranch(msg) = "done"
    THEN 1 + (IF done THEN 1 ELSE 0)
    ELSE IF done THEN 1 ELSE 0

\* The early_stop() calls next() makes on the tick that received msg with
\* the engine's flag at done: one in the _done branch, which returns at
\* once, otherwise the one under 'if is_done' at the end of the tick.
EarlyStopCalls(msg, done) ==
    IF EpisodeBranch(msg) = "done"
    THEN 1
    ELSE IF done THEN 1 ELSE 0

\* early_stop(), then cerebro.run() returns and run() stores the result and
\* goes back to the control mode loop.
EndEpisode ==
    /\ early_stops' = early_stops + EarlyStopCalls(message', is_done)
    /\ episode_result' = ResultOf(episode_result, episode_number)
    /\ episode_number' = episode_number + 1
    /\ pc' = "control"

\* next(): a tick of the engine, up to the blocking recv_pyobj() when the
\* gate is open, to the end of the tick otherwise.
EngineTick ==
    /\ step' = "EngineTick"
    /\ pc = "running"
    /\ \E d \in BOOLEAN :
         LET done == GetDone(d, iteration) IN
         /\ is_done' = done
         /\ info_list' = Append(info_list, GetInfo(iteration))
         /\ action' = TickAction(action)
         /\ IF GateOpen(iteration, done)
            THEN /\ state' = GetState(iteration)
                 /\ reward' = GetReward(iteration)
                 /\ renders' = 0
                 /\ pc' = "episode_recv"
                 /\ iteration' = iteration
            ELSE /\ iteration' = iteration + 1
                 /\ pc' = "running"
                 /\ UNCHANGED <<state, reward, renders>>
    /\ UNCHANGED <<ctrlVars, dataVars, error, episode_number, episode_result,
                   trial_sample, episode_sample, last_action, step_to_render,
                   message, early_stops>>

\* next(): a message arrives at recv_pyobj(); the handler runs to the next
\* blocking call.
EpisodeRecv ==
    /\ step' = "EpisodeRecv"
    /\ pc = "episode_recv"
    /\ socket = "recv"
    /\ \E msg \in ControllerMessages :
         LET branch == EpisodeBranch(msg) IN
         /\ message' = msg
         /\ out' = EpisodeReply(msg, state, reward, is_done, info_list)
         /\ CASE branch = "render" ->
                   /\ renders < MaxRenders
                   /\ renders' = renders + 1
                   /\ socket' = "recv"
                   /\ UNCHANGED <<pc, error, episode_number, episode_result,
                                  iteration, is_done, info_list, action, last_action,
                                  step_to_render, early_stops>>
              [] branch = "render_error" ->
                   /\ pc' = "crashed"
                   /\ error' = "KeyError"
                   /\ socket' = "send"
                   /\ UNCHANGED <<episode_number, episode_result, iteration, is_done,
                                  info_list, action, last_action, step_to_render,
                                  renders, early_stops>>
              [] branch = "done" ->
                   /\ is_done' = TRUE
                   /\ socket' = "recv"
                   /\ EndEpisode
                   /\ UNCHANGED <<error, iteration, info_list, action, last_action,
                                  step_to_render, renders>>
              [] branch = "ignored" ->
                   /\ socket' = "send"
                   /\ UNCHANGED <<pc, error, episode_number, episode_result,
                                  iteration, is_done, info_list, action, last_action,
                                  step_to_render, renders, early_stops>>
              [] branch = "no_action" ->
                   /\ pc' = "crashed"
                   /\ error' = "AssertionError"
                   /\ socket' = "send"
                   /\ UNCHANGED <<episode_number, episode_result, iteration, is_done,
                                  info_list, action, last_action, step_to_render,
                                  renders, early_stops>>
              [] branch = "action" ->
                   /\ action' = msg.action
                   /\ last_action' = msg.action
                   /\ socket' = "recv"
                   /\ step_to_render' =
                         [state |-> state, reward |-> reward, done |-> is_done,
                          info |-> info_list, set |-> TRUE]
                   /\ info_list' = <<>>
                   /\ iteration' = iteration + 1
                   /\ IF is_done
                      THEN EndEpisode
                      ELSE /\ pc' = "running"
                           /\ UNCHANGED <<episode_number, episode_result, early_stops>>
                   /\ UNCHANGED <<error, is_done, renders>>
    /\ UNCHANGED <<service_input, dataVars, trial_sample, episode_sample, state, reward>>

\* next(): recv_pyobj() is called again while the REP socket still owes the
\* reply to the previous request; ZMQ raises EFSM.
RecvOutOfState ==
    /\ step' = "RecvOutOfState"
    /\ pc = "episode_recv"
    /\ socket = "send"
    /\ pc' = "crashed"
    /\ error' = "ZMQError"
    /\ UNCHANGED <<ctrlVars, dataVars, epVars, episode_number, episode_result,
                   trial_sample, episode_sample>>

\* run(): a call on the controller socket raises zmq.ZMQError in control
\* mode, either recv_pyobj() of line 407 or the send_pyobj() answering msg;
\* nothing in run() catches it.
ControlChannelFault ==
    /\ step' = "ControlChannelFault"
    /\ pc = "control"
    /\ \/ UNCHANGED <<service_input, out, socket>>
       \/ \E msg \in ControllerMessages :
             /\ ControlReply(msg, episode_result) # <<>>
             /\ service_input' = msg
             /\ out' = <<>>
             /\ socket' = "send"
    /\ pc' = "crashed"
    /\ error' = "ZMQError"
    /\ UNCHANGED <<dataVars, epVars, episode_number, episode_result, trial_sample,
                   episode_sample>>

\* next(): a call on the controller socket raises zmq.ZMQError inside an
\* episode: either recv_pyobj(), before anything is written, or the
\* send_pyobj() answering msg, after the writes that precede it (is_done
\* at line 123 for _done, action and last_action at lines 135-136 for an
\* action).
EpisodeChannelFault ==
    /\ step' = "EpisodeChannelFault"
    /\ pc = "episode_recv"
    /\ socket = "recv"
    /\ \/ UNCHANGED <<message, out, socket, is_done, action, last_action>>
       \/ \E msg \in ControllerMessages :
             /\ EpisodeReply(msg, state, reward, is_done, info_list) # <<>>
             /\ message' = msg
             /\ out' = <<>>
             /\ socket' = "send"
             /\ is_done' = (is_done \/ EpisodeBranch(msg) = "done")
             /\ IF EpisodeBranch(msg) = "action"
                THEN action' = msg.action /\ last_action' = msg.action
                ELSE UNCHANGED <<action, last_action>>
    /\ pc' = "crashed"
    /\ error' = "ZMQError"
    /\ UNCHANGED <<service_input, dataVars, episode_number, episode_result,
                   trial_sample, episode_sample, iteration, info_list, state,
                   reward, step_to_render, renders, early_stops>>

\* ---------------------------------------------------------- specification
Next ==
    \/ Ping
    \/ ControlRecv
    \/ GetData
    \/ EngineTick
    \/ EpisodeRecv
    \/ RecvOutOfState
    \/ ControlChannelFault
    \/ EpisodeChannelFault

Spec == Init /\ [][Next]_vars

\* The server process keeps running its acquisition loop: every blocking call
\* of get_data() is bounded by the socket timeouts and by sleep(pause).
FairSpec == Spec /\ WF_vars(GetData)

\* The mode of the session (spec 4.4): acquisition and ticking belong to the
\* episode.
Mode ==
    CASE pc = "control" -> "Control"
      [] pc \in {"get_data", "running", "episode_recv"} -> "Episode"
      [] pc = "terminated" -> "Terminated"
      [] pc = "ping" -> "Starting"
      [] OTHER -> "Crashed"

TypeOK ==
    /\ pc \in {"ping", "control", "get_data", "running", "episode_recv",
               "terminated", "crashed"}
    /\ socket \in {"recv", "send", "closed"}
    /\ Len(out) <= 1
    /\ episode_number \in 0..MaxEpisodes
    /\ wait \in 0..(WaitForDataReset * Resolution + PauseRange * Resolution - 1)
    /\ iteration \in 0..(MaxIteration + 1)
    /\ last_io \in ((SocketResults \cup {"none"}) \X (SocketResults \cup {"none"}))

\* ----------------------------------------------------------------- claims
\* A control message of the vocabulary of spec 6: ctrl present, and a
\* _reset carrying its kwargs.
WellFormedControl(msg) ==
    msg.ctrl # Absent /\ (msg.ctrl = "_reset" => msg.kwargs # Absent)

\* C1: in control mode every well-formed control message gets exactly one
\* reply; _reset leads to Episode, _stop to Terminated, and every other ctrl
\* leaves the session in Control.
C1_ControlOneReply ==
    (step = "ControlRecv" /\ WellFormedControl(service_input)) =>
        /\ Len(out) = 1
        /\ socket # "send"
        /\ service_input.ctrl = "_reset" => Mode = "Episode"
        /\ service_input.ctrl = "_stop" => Mode = "Terminated"
        /\ service_input.ctrl \notin {"_reset", "_stop"} => Mode = "Control"

C1_Witness ==
    /\ step = "ControlRecv"
    /\ service_input.ctrl = "_bogus"
    /\ Len(out) = 1
    /\ out[1].kind = "usage"
    /\ pc = "control"
    /\ episode_number >= 1

\* C2: on the controller socket receives and sends strictly alternate:
\* whenever the core is at a receive no reply is owed, and no request gets
\* two replies.
C2_StrictAlternation ==
    /\ Len(out) <= 1
    /\ pc \in {"control", "episode_recv"} => socket = "recv"

\* C3: a render request inside an episode is answered with a rendering and
\* leaves tick counter, pending action, info batch, done flag and snapshot
\* alone; the tuple replied to the action is the one of the tick, whatever
\* the number of renders before it.
C3_RenderStep ==
    (step' = "EpisodeRecv" /\ message'.ctrl = "_render" /\ message'.mode # Absent) =>
        /\ out' = <<[Reply("render") EXCEPT !.mode = message'.mode]>>
        /\ pc' = "episode_recv"
        /\ socket' = "recv"
        /\ UNCHANGED <<iteration, action, info_list, is_done, state, reward>>

C3_TupleStep ==
    (step' = "EpisodeRecv" /\ message'.ctrl = Absent /\ message'.action # Absent) =>
        /\ Len(out') = 1
        /\ out'[1].kind = "tuple"
        /\ out'[1].state = GetState(iteration)
        /\ out'[1].reward = GetReward(iteration)
        /\ out'[1].done = is_done

C3_RenderNeutral == [][C3_RenderStep /\ C3_TupleStep]_vars

C3_Witness ==
    /\ step = "EpisodeRecv"
    /\ renders >= 2
    /\ Len(out) = 1
    /\ out[1].kind = "tuple"

\* C4: a _done message on a communicated tick is acknowledged (no tuple),
\* early_stop runs, the episode is over and the core is back at the control
\* mode receive; no tick runs or communicates until the next reset.
C4_DoneEndsEpisode ==
    /\ (step = "EpisodeRecv" /\ message.ctrl = "_done") =>
          /\ out = <<Reply("done_ack")>>
          /\ early_stops = 1
          /\ is_done
          /\ pc = "control"
          /\ socket = "recv"
    /\ message.ctrl = "_done" => pc \notin {"running", "episode_recv", "get_data"}

C4_Witness ==
    /\ step = "EpisodeRecv"
    /\ message.ctrl = "_done"
    /\ iteration >= SkipFrame
    /\ pc = "control"
    /\ out = <<Reply("done_ack")>>

\* C5: _getstat in control mode returns the empty dict before the first
\* episode has completed and afterwards the record of the last completed
\* episode, whose number is the count of completed episodes minus one.
C5_GetStat ==
    (step = "ControlRecv" /\ service_input.ctrl = "_getstat") =>
        /\ Len(out) = 1
        /\ out[1].kind = "stat"
        /\ out[1].stat = IF episode_number = 0
                         THEN {}
                         ELSE {<<"episode", episode_number - 1>>}

C5_Witness ==
    /\ step = "ControlRecv"
    /\ service_input.ctrl = "_getstat"
    /\ episode_number = 2
    /\ Len(out) = 1
    /\ out[1].stat = {<<"episode", 1>>}

\* C6: with stride SkipFrame the core is at the controller on exactly the
\* ticks that are a multiple of the stride or terminal; exactly SkipFrame
\* ticks lie between two consecutive tuples of a running episode, and fewer
\* than SkipFrame ticks ever pass without communication.
C6_SkipFrame ==
    /\ pc = "episode_recv" => (iteration % SkipFrame = 0 \/ is_done)
    /\ (pc = "episode_recv" /\ ~is_done /\ step_to_render.set) =>
          /\ Len(info_list) = SkipFrame
          /\ info_list[1] = step_to_render.state + 1
          /\ iteration = step_to_render.state + SkipFrame
    /\ pc = "running" => Len(info_list) < SkipFrame
    /\ (step = "EngineTick" /\ pc = "running") =>
          (~is_done /\ (iteration - 1) % SkipFrame # 0)

C6_Witness ==
    /\ pc = "episode_recv"
    /\ ~is_done
    /\ step_to_render.set
    /\ Len(info_list) = SkipFrame
    /\ iteration = step_to_render.state + SkipFrame

\* C7 as claimed: the info element of a communicated tuple holds every info
\* record accumulated since the previous communication.
C7_FullBatchSent ==
    (step = "EpisodeRecv" /\ Len(out) = 1 /\ out[1].kind = "tuple") =>
        out[1].info = step_to_render.info

\* C7 as amended: the info element of a communicated tuple is a singleton
\* holding the record of the communicated tick only; the batch accumulated
\* since the previous communication, one record per tick, is kept in
\* step_to_render and not sent.
C7_LatestRecordSent ==
    (step = "EpisodeRecv" /\ Len(out) = 1 /\ out[1].kind = "tuple") =>
        /\ step_to_render.set
        /\ Len(step_to_render.info) >= 1
        /\ out[1].info = <<step_to_render.info[Len(step_to_render.info)]>>
        /\ out[1].info = <<GetInfo(iteration - 1)>>
        /\ \A i \in 1..(Len(step_to_render.info) - 1) :
              step_to_render.info[i + 1] = step_to_render.info[i] + 1

C7_Witness ==
    /\ step = "EpisodeRecv"
    /\ Len(out) = 1
    /\ out[1].kind = "tuple"
    /\ Len(step_to_render.info) >= 2
    /\ Len(out[1].info) = 1

\* C8: against a data server that is never ready get_data() ends in
\* RuntimeError once wait exceeds WaitForDataReset; by then one _stop has
\* been sent on the data channel as its last request and the controller
\* socket is closed.
C8_TimeoutSafety ==
    error = "RuntimeError" =>
        /\ step = "GetData"
        /\ pc = "crashed"
        /\ dp.always
        /\ wait > WaitForDataReset * Resolution
        /\ socket = "closed"
        /\ n_stop <= 1
        /\ last_io[1] = "ok" => (n_stop = 1 /\ data_request.ctrl = "_stop")
        /\ last_io[1] # "ok" => n_stop = 0

C8_TimeoutLive ==
    (pc = "get_data" /\ dp.always /\ ~dp.fails) ~> (error = "RuntimeError")

C8_Timeout == []C8_TimeoutSafety /\ C8_TimeoutLive

C8_Witness ==
    /\ error = "RuntimeError"
    /\ wait > WaitForDataReset * Resolution
    /\ n_stop = 1
    /\ socket = "closed"
    /\ data_request.ctrl = "_stop"

\* C9: against a data server that is not ready K times and then sends a
\* sample, get_data() returns that sample after exactly K + 1 requests, with
\* wait the sum of the K pauses slept and no _stop sent.
C9_ReturnStep ==
    (step' = "GetData" /\ pc = "get_data" /\ pc' = "running") =>
        /\ ~dp.always
        /\ n_get_data' = dp.not_ready + 1
        /\ wait' = slept'
        /\ slept' + MaxZeroPause >= dp.not_ready
        /\ slept' < dp.not_ready * PauseRange * Resolution \/ dp.not_ready = 0
        /\ n_stop' = 0
        /\ data_server_response'.message.kind = "sample"
        /\ trial_sample' = data_server_response'.message.sample
        /\ data_request'.ctrl = "_get_data"

C9_ReadyAfterK == [][C9_ReturnStep]_vars

C9_Witness ==
    /\ step = "GetData"
    /\ pc = "running"
    /\ n_get_data = 3
    /\ wait = 2
    /\ trial_sample # None
    /\ n_stop = 0

\* C10: a _get_data exchange that is not ok ends get_data() at once with
\* ConnectionError: no pause, no _stop and no further request follow it,
\* whatever the number of retries before.
C10_FailStep ==
    (step' = "GetData" /\ data_server_response'.status # "ok"
        /\ error' # "RuntimeError") =>
        /\ pc' = "crashed"
        /\ error' = "ConnectionError"
        /\ wait' = wait
        /\ slept' = slept
        /\ n_stop' = n_stop
        /\ n_get_data' \in {n_get_data, n_get_data + 1}
        /\ data_request'.ctrl # "_stop"
        /\ socket' = socket

C10_Unreachable == [][C10_FailStep]_vars

C10_Witness ==
    /\ step = "GetData"
    /\ error = "ConnectionError"
    /\ n_get_data >= 2
    /\ wait >= 1
    /\ n_stop = 0

\* The first reset of a session finds no cached trial: episode_number = 0.
FreshGetData ==
    /\ step = "GetData"
    /\ episode_number = 0
    /\ data_request.ctrl = "_get_data"

\* C11 as stated: on a fresh session the _get_data request that follows a
\* reset with get_new = false has the content of the request that follows a
\* reset with get_new = true.
C11_SameRequests ==
    (FreshGetData /\ service_input.kwargs = "reuse") =>
        data_request = DataRequest("_get_data", "new")

\* C11, amended: on a fresh session every accepted reset forces an
\* acquisition whatever its get_new flag, and each _get_data request it
\* causes carries that reset's own trial configuration, get_new included.
C11_FreshForcesAcquisition ==
    /\ (/\ step = "ControlRecv"
        /\ service_input.ctrl = "_reset"
        /\ service_input.kwargs # Absent
        /\ trial_sample = None) => pc = "get_data"
    /\ FreshGetData =>
        data_request = DataRequest("_get_data", service_input.kwargs)
    /\ (step = "GetData" /\ episode_number = 0) => service_input.ctrl = "_reset"

C11_Witness ==
    /\ FreshGetData
    /\ service_input.kwargs = "reuse"
    /\ data_request = DataRequest("_get_data", "reuse")
    /\ pc = "running"

\* What the data channel has carried so far.
dataTraffic == <<data_request, data_server_response, n_ping, n_stop, last_io>>

\* C12: an accepted reset goes on to get_data() exactly when it asks for a
\* new trial or none is cached; otherwise the episode starts at once on a
\* sample of the cached trial and the data channel stays silent.
C12_ResetStep ==
    (/\ step' = "ControlRecv"
     /\ service_input'.ctrl = "_reset"
     /\ service_input'.kwargs # Absent) =>
        /\ (pc' = "get_data") <=>
               (service_input'.kwargs = "new" \/ trial_sample = None)
        /\ pc' # "get_data" =>
               /\ pc' = "running"
               /\ episode_sample' = trial_sample
               /\ n_get_data' = 0
        /\ trial_sample' = trial_sample
        /\ dataTraffic' = dataTraffic

\* C12: get_data() is the only place a _get_data request is sent from, its
\* first step sends one when the channel lets it, and a trial it obtains
\* replaces the cached one.
C12_AcquireStep ==
    /\ n_get_data' # n_get_data =>
           \/ step' = "GetData" /\ pc = "get_data"
                /\ n_get_data' = n_get_data + 1
                /\ data_request'.ctrl \in {"_get_data", "_stop"}
           \/ step' = "ControlRecv" /\ n_get_data' = 0
    /\ (step' = "GetData" /\ n_get_data = 0 /\ last_io'[1] = "ok") =>
           n_get_data' = 1
    /\ trial_sample' # trial_sample =>
           /\ step' = "GetData"
           /\ trial_sample' = data_server_response'.message.sample
    /\ (pc \in {"running", "episode_recv"}) =>
           /\ dataTraffic' = dataTraffic
           /\ n_get_data' = n_get_data
           /\ trial_sample' = trial_sample

\* C12: throughout an episode the episode sample is the one drawn from the
\* single cached trial at the reset that started it.
C12_EpisodeSample ==
    (pc \in {"running", "episode_recv"}) =>
        /\ trial_sample \in SampleIds
        /\ episode_sample = trial_sample
        /\ (n_get_data = 0) <=>
               (service_input.kwargs = "reuse" /\ episode_number > 0)

C12_ReuseOrAcquire ==
    /\ [][C12_ResetStep /\ C12_AcquireStep]_vars
    /\ []C12_EpisodeSample

C12_Witness ==
    /\ pc = "running"
    /\ step = "ControlRecv"
    /\ service_input.kwargs = "reuse"
    /\ episode_number = 1
    /\ n_get_data = 0
    /\ episode_sample = trial_sample
    /\ data_request.ctrl = "_get_data"

\* C13: a control word other than _render and _done received inside an
\* episode is signalled to the caller (a reply, or the failure of the
\* session) and the core does not return to waiting for the next message.
C13_UnknownCtrlSignalled ==
    (/\ step = "EpisodeRecv"
     /\ message.ctrl \notin {Absent, "_render", "_done"}) =>
        /\ pc # "episode_recv"
        /\ Len(out) = 1 \/ error # NoError

\* C14: a fault of the controller socket in control mode is answered with a
\* diagnostic reply and the core stays in control mode, serving on.
C14_ControlFaultNonFatal ==
    step = "ControlChannelFault" =>
        /\ pc = "control"
        /\ error = NoError
        /\ Len(out) = 1

\* C15: once the core has terminated on _stop, the farewell has been sent
\* and both the controller socket and the data socket are closed.
C15_StopClosesBoth ==
    pc = "terminated" =>
        /\ out = <<Reply("exiting")>>
        /\ socket = "closed"
        /\ data_socket = "closed"

\* C16: _stop has gone to the data server exactly once in a session that
\* ended on a controller _stop, at most once in any session, and never in a
\* session that is still running.
C16_StopOncePerSession ==
    /\ n_stop <= 1
    /\ pc = "terminated" => n_stop = 1
    /\ pc \notin {"terminated", "crashed"} => n_stop = 0

\* A received message with neither ctrl nor action.
Empty(msg) == msg.ctrl = Absent /\ msg.action = Absent

\* C17 as stated: in control mode and in episode mode alike a message with
\* neither ctrl nor action gets one reply and leaves the mode as it was.
C17_DiagnosticEitherMode ==
    /\ (step = "ControlRecv" /\ Empty(service_input)) =>
           Len(out) = 1 /\ pc = "control" /\ error = NoError
    /\ (step = "EpisodeRecv" /\ Empty(message)) =>
           Len(out) = 1 /\ Mode = "Episode" /\ error = NoError

\* C17, amended: in control mode a message with neither ctrl nor action is
\* answered with the no-ctrl hint and control mode goes on; in episode mode
\* it gets no reply and ends the session with AssertionError.
C17_DiagnosticInControlOnly ==
    /\ (step = "ControlRecv" /\ Empty(service_input)) =>
           /\ out = <<Reply("no_ctrl_hint")>>
           /\ pc = "control"
           /\ socket = "recv"
           /\ error = NoError
    /\ (step = "EpisodeRecv" /\ Empty(message)) =>
           /\ out = <<>>
           /\ pc = "crashed"
           /\ error = "AssertionError"

C17_Witness ==
    /\ step = "EpisodeRecv"
    /\ Empty(message)
    /\ error = "AssertionError"
    /\ Empty(service_input) = FALSE
    /\ iteration > 0

\* The session has ended on the failure of the ping.
PingFailed == step = "Ping" /\ pc = "crashed"

\* C18: the ping is the first thing a session does and is exchanged once;
\* nothing is received from or sent to the controller and no _get_data is
\* requested before it has succeeded, and a ping that is not ok ends the
\* session there with ConnectionError.
C18_PingState ==
    /\ n_ping <= 1
    /\ pc = "ping" =>
           /\ step = "start"
           /\ n_ping = 0
           /\ data_request = NoRequest
    /\ (pc = "ping" \/ PingFailed) =>
           /\ service_input = NoMessage
           /\ out = <<>>
           /\ socket = "recv"
           /\ n_get_data = 0
           /\ data_request.ctrl # "_get_data"
    /\ (pc # "ping" /\ ~PingFailed) => n_ping = 1
    /\ step = "Ping" =>
           /\ last_io # <<"none", "none">>
           /\ data_server_response.status = "ok" => pc = "control"
           /\ data_server_response.status # "ok" =>
                  pc = "crashed" /\ error = "ConnectionError"

\* C18: the ping is never repeated and a crashed session takes no step.
C18_PingStep ==
    /\ step' = "Ping" => step = "start"
    /\ pc # "crashed"

C18_PingOnceFirst == []C18_PingState /\ [][C18_PingStep]_vars

C18_Witness ==
    /\ PingFailed
    /\ error = "ConnectionError"
    /\ data_server_response.status = "receive_failed_due_to_connect_timeout"
    /\ n_ping = 1

\* C19: what _comm_with_timeout returned for the last exchange is one of
\* five outcomes, decided by how the send and the receive went; the receive
\* was not attempted after a failed send, a message comes with ok alone,
\* and no socket error reaches the caller.
C19_FiveOutcomes ==
    data_server_response # NoResponse =>
        LET r == data_server_response IN
        /\ r.status \in {"ok", "send_failed_due_to_connect_timeout",
                         "send_failed_for_unknown_reason",
                         "receive_failed_due_to_connect_timeout",
                         "receive_failed_for_unknown_reason"}
        /\ r.status = "send_failed_due_to_connect_timeout" <=>
               last_io = <<"EAGAIN", "none">>
        /\ r.status = "send_failed_for_unknown_reason" <=>
               last_io = <<"EOTHER", "none">>
        /\ r.status = "receive_failed_due_to_connect_timeout" <=>
               last_io = <<"ok", "EAGAIN">>
        /\ r.status = "receive_failed_for_unknown_reason" <=>
               last_io = <<"ok", "EOTHER">>
        /\ r.status = "ok" <=> last_io = <<"ok", "ok">>
        /\ r.sent <=> last_io[1] = "ok"
        /\ r.recv_called <=> r.sent
        /\ r.message # NoDataMsg => r.status = "ok"
        /\ r.status = "ok" => r.message # NoDataMsg
        /\ step \in {"Ping", "GetData"} => error # "ZMQError"

C19_Witness ==
    /\ step = "GetData"
    /\ data_server_response.status = "send_failed_for_unknown_reason"
    /\ ~data_server_response.recv_called
    /\ data_server_response.message = NoDataMsg
    /\ error = "ConnectionError"
    /\ n_get_data = 1

\* C20: every tick starts by setting the pending action to hold, so a tick
\* that goes by without a message from the controller runs on hold.
C20_HoldEachTick ==
    step = "EngineTick" => action = "hold"

\* C20: the pending action and the last-action record are written together
\* when an action message is received, the pending action is otherwise
\* written by the start of a tick alone, and the last-action record by
\* nothing else within an episode.
C20_ActionStep ==
    /\ (step' = "EpisodeRecv" /\ EpisodeBranch(message') = "action") =>
           /\ action' = message'.action
           /\ last_action' = message'.action
    /\ (pc \in {"running", "episode_recv"} /\ last_action' # last_action) =>
           /\ step' \in {"EpisodeRecv", "EpisodeChannelFault"}
           /\ EpisodeBranch(message') = "action"
           /\ last_action' = message'.action
    /\ (pc \in {"running", "episode_recv"} /\ action' # action) =>
           \/ step' = "EngineTick" /\ action' = "hold"
           \/ /\ step' \in {"EpisodeRecv", "EpisodeChannelFault"}
              /\ EpisodeBranch(message') = "action"
              /\ action' = message'.action

C20_PendingAction == []C20_HoldEachTick /\ [][C20_ActionStep]_vars

C20_Witness ==
    /\ step = "EngineTick"
    /\ pc = "running"
    /\ action = "hold"
    /\ last_action = "buy"
    /\ message.action = "buy"

\* C21: no early_stop() has run while an episode is under way, and an
\* episode that has gone back to control mode ran it once, after the reply
\* that ended it: the acknowledgement of _done, or the 4-tuple with done
\* set answering an action on the tick the engine flagged.
C21_OncePerEpisode ==
    /\ early_stops <= 1
    /\ pc \in {"get_data", "running", "episode_recv"} => early_stops = 0
    /\ (step = "EpisodeRecv" /\ pc = "control") =>
           /\ early_stops = 1
           /\ is_done
           /\ \/ /\ EpisodeBranch(message) = "done"
                 /\ out = <<Reply("done_ack")>>
              \/ /\ EpisodeBranch(message) = "action"
                 /\ Len(out) = 1
                 /\ out[1].kind = "tuple"
                 /\ out[1].done = TRUE

\* C21: early_stop() runs in the step that receives _done, whether or not
\* the engine has flagged the tick, or in the step that receives an action
\* on a flagged tick, once in either case and in no other step; a render
\* neither runs it nor ends the episode.
C21_EarlyStopStep ==
    /\ (step' = "EpisodeRecv" /\ EpisodeBranch(message') = "done") =>
           early_stops' = early_stops + 1 /\ pc' = "control"
    /\ (step' = "EpisodeRecv" /\ EpisodeBranch(message') = "action") =>
           /\ early_stops' = early_stops + (IF is_done THEN 1 ELSE 0)
           /\ pc' = (IF is_done THEN "control" ELSE "running")
    /\ (step' = "EpisodeRecv" /\ EpisodeBranch(message') = "render") =>
           early_stops' = early_stops /\ pc' = "episode_recv"
    /\ early_stops' > early_stops =>
           /\ step' = "EpisodeRecv"
           /\ pc = "episode_recv"
           /\ EpisodeBranch(message') \in {"done", "action"}
    /\ (pc \in {"running", "episode_recv"} /\ pc' = "control") =>
           early_stops' = 1

C21_EarlyStopOnce == []C21_OncePerEpisode /\ [][C21_EarlyStopStep]_vars

C21_Witness ==
    /\ step = "EpisodeRecv"
    /\ pc = "control"
    /\ EpisodeBranch(message) = "done"
    /\ iteration >= MaxIteration
    /\ renders >= 1
    /\ last_action # Absent
    /\ early_stops = 1

\* The acknowledgement of the reset in service_input.
ResetAck == [Reply("reset_ack") EXCEPT !.kwargs = service_input.kwargs]

\* C22: while get_data() runs, and when it has failed, the last thing sent
\* to the controller is the acknowledgement of the reset being served.
C22_AckBeforeData ==
    (pc = "get_data" \/ step = "GetData") =>
        /\ service_input.ctrl = "_reset"
        /\ out = <<ResetAck>>
        /\ socket \in {"recv", "closed"}
        /\ (pc = "crashed" /\ error \in {"ConnectionError", "RuntimeError"}) =>
               early_stops = 0 /\ step_to_render = NoStep

\* C22: the step that accepts a reset sends the acknowledgement and leaves
\* the data channel alone, and a session whose acquisition has failed takes
\* no further step: nothing is sent to the controller afterwards.
C22_AckStep ==
    /\ (step' = "ControlRecv" /\ pc' = "get_data") =>
           /\ out' = <<[Reply("reset_ack") EXCEPT !.kwargs = service_input'.kwargs]>>
           /\ dataTraffic' = dataTraffic
           /\ n_get_data' = 0
    /\ n_get_data' > n_get_data => out = <<ResetAck>> /\ out' = out
    /\ (step = "GetData" /\ pc = "crashed") => out' = out /\ pc' = pc

C22_ResetAckFirst == []C22_AckBeforeData /\ [][C22_AckStep]_vars

C22_Witness ==
    /\ step = "GetData"
    /\ pc = "crashed"
    /\ error = "RuntimeError"
    /\ out = <<ResetAck>>
    /\ socket = "closed"
    /\ n_stop = 1
    /\ n_get_data >= 2

====
